---- MODULE Spec2Model ----
(***************************************************************************)
(* A model of the orbit camera of src/src/main.rs: the OrbitCamera value   *)
(* (distance / pitch / yaw / focus with their clamp and wrap algebra), the *)
(* spherical position derivation, and the per-frame systems that main()    *)
(* registers (move_cube, zoom_camera, rotate_camera, update_camera,        *)
(* move_camera).                                                           *)
(*                                                                         *)
(* Numbers.  Every f32 of the source is an integer count of a fixed unit,  *)
(* rounded to a 24 bit significand by F32 after each arithmetic operation: *)
(*   distance : units of f32::EPSILON = 2^-23 (so the model is exact f32   *)
(*              for the distances it uses),                                *)
(*   pitch    : units of 0.1 degree (PI = 1800),                           *)
(*   yaw      : units of PI/4       (PI = 4),                              *)
(*   positions and unit vectors : units of 10^-4.                          *)
(***************************************************************************)
EXTENDS Integers, Sequences, FiniteSets, TLC

VARIABLES
    cams,        \* camera entity -> its OrbitCamera component
    call,        \* the set_yaw call in progress (frames of OrbitCamera::wrap), or NoCall
    last,        \* the public OrbitCamera method last called, and its argument
    panicked,    \* TRUE once assert!(point.is_normalized()) has failed
    translation, \* scene entity -> Transform.translation
    camT,        \* camera entity -> its Transform (translation, point looked at)
    pc,          \* index in Schedule of the system that ran last (0: only setup ran)
    cubeSteps    \* number of frames in which the cube has moved

vars == <<cams, call, last, panicked, translation, camT, pc, cubeSteps>>

----------------------------------------------------------------------------
(* Bounds of the model *)

\* wrap() frames explored before the exploration of one call is cut off
MaxDepth == 4
\* frames in which move_cube is given a non-zero time step
MaxCubeSteps == 3

----------------------------------------------------------------------------
(* f32 arithmetic *)

Significand == 2^24

Abs(x) == IF x < 0 THEN -x ELSE x

Max2(a, b) == IF a < b THEN b ELSE a

Min2(a, b) == IF b < a THEN b ELSE a

RECURSIVE Ulp(_, _)
Ulp(m, u) == IF m \div u < Significand THEN u ELSE Ulp(m, 2 * u)

\* round-to-nearest, ties-to-even, of a magnitude to 24 significant bits
RoundMag(m) ==
    LET u == Ulp(m, 1)
        q == m \div u
        r == m % u
    IN  IF 2 * r < u THEN q * u
        ELSE IF 2 * r > u THEN (q + 1) * u
        ELSE IF q % 2 = 0 THEN q * u ELSE (q + 1) * u

F32(x) == IF x < 0 THEN -RoundMag(-x) ELSE RoundMag(x)

\* a / b rounded to the nearest integer (b > 0)
RoundDiv(a, b) ==
    IF a < 0 THEN -((-a + b \div 2) \div b) ELSE (a + b \div 2) \div b

----------------------------------------------------------------------------
(* Constants of impl OrbitCamera *)

\* f32::EPSILON, the unit distances are counted in
EPSILON == 1
\* 1.0 as a distance
DistOne == 2^23
\* std::f32::consts::PI as a pitch (units of 0.1 degree)
PiPitch == 1800
\* std::f32::consts::PI as a yaw (units of PI/4)
PiYaw == 4

MIN_DISTANCE == 5 * DistOne
MAX_DISTANCE == 100 * DistOne
MAX_PITCH == (899 * PiPitch) \div 1800
MIN_PITCH == -MAX_PITCH
MAX_YAW == PiYaw
MIN_YAW == -MAX_YAW

----------------------------------------------------------------------------
(* Vec3 *)

TrigScale == 10^4

Origin == <<0, 0, 0>>

\* Vec3::unit_y()
Y_AXIS == <<0, 1, 0>>

VAdd(a, b) == <<a[1] + b[1], a[2] + b[2], a[3] + b[3]>>

VSub(a, b) == <<a[1] - b[1], a[2] - b[2], a[3] - b[3]>>

VScale(a, k) == <<a[1] * k, a[2] * k, a[3] * k>>

\* a x b, for a unit-free b
Cross(a, b) ==
    <<a[2] * b[3] - a[3] * b[2], a[3] * b[1] - a[1] * b[3], a[1] * b[2] - a[2] * b[1]>>

\* Vec3::is_normalized: the squared length is 1 up to the resolution of the grid
NormTolerance == 5 * 10^4

LengthSquared(v) == v[1] * v[1] + v[2] * v[2] + v[3] * v[3]

is_normalized(v) == Abs(LengthSquared(v) - TrigScale * TrigScale) <= NormTolerance

----------------------------------------------------------------------------
(* sin and cos, to 4 decimals, at the angles the model visits *)

\* sin of a pitch in the first quadrant, 0 .. 900 (0.1 degree units)
SinQuadrant(a) ==
    CASE a = 0   -> 0
      [] a = 1   -> 17
      [] a = 449 -> 7059
      [] a = 450 -> 7071
      [] a = 451 -> 7083
      [] a = 899 -> 10000
      [] a = 900 -> 10000

SinPitch(p) ==
    LET a == p % (2 * PiPitch)
    IN  IF a <= PiPitch \div 2 THEN SinQuadrant(a)
        ELSE IF a <= PiPitch THEN SinQuadrant(PiPitch - a)
        ELSE IF a <= 3 * (PiPitch \div 2) THEN -SinQuadrant(a - PiPitch)
        ELSE -SinQuadrant(2 * PiPitch - a)

CosPitch(p) == SinPitch(p + PiPitch \div 2)

SinYaw(y) == <<0, 7071, 10000, 7071, 0, -7071, -10000, -7071>>[(y % (2 * PiYaw)) + 1]

CosYaw(y) == SinYaw(y + PiYaw \div 2)

----------------------------------------------------------------------------
(* impl OrbitCamera *)

None == "None"

NoCall == [cam |-> None, num |-> 0, depth |-> 0]

\* the chain without its .min(MAX_DISTANCE)
ClampDistanceNoMax(distance) == Max2(Max2(distance, EPSILON), MIN_DISTANCE)
\* distance.max(EPSILON).max(MIN_DISTANCE).min(MAX_DISTANCE), lines 39-42 and 60-63
ClampDistance(distance) ==
    Min2(Max2(Max2(distance, EPSILON), MIN_DISTANCE), MAX_DISTANCE)

\* a pitch that wraps to the opposite bound
ClampPitchWrapping(pitch) ==
    IF pitch > MAX_PITCH THEN MIN_PITCH
    ELSE IF pitch < MIN_PITCH THEN MAX_PITCH ELSE pitch
\* pitch.max(MIN_PITCH).min(MAX_PITCH), line 74
ClampPitch(pitch) == Min2(Max2(pitch, MIN_PITCH), MAX_PITCH)

new(target, distance, pitch, yaw) ==
    [target |-> target, focus |-> Origin, distance |-> ClampDistance(distance),
     pitch |-> pitch, yaw |-> yaw]

set_focus(oc, focus) == [oc EXCEPT !.focus = focus]

\* a set_distance that adds to the stored distance
set_distance_accumulate(oc, distance) ==
    [oc EXCEPT !.distance = ClampDistance(F32(oc.distance + distance))]
set_distance(oc, distance) == [oc EXCEPT !.distance = ClampDistance(distance)]

add_distance(oc, distance) == set_distance(oc, F32(oc.distance + distance))

set_pitch(oc, pitch) == [oc EXCEPT !.pitch = ClampPitch(pitch)]

add_pitch(oc, pitch) == set_pitch(oc, F32(oc.pitch + pitch))

\* a wrap that clamps to the nearer bound
WrapCallClamp(num, min, max) == IF num < min THEN min ELSE max
\* the argument of the recursive call of wrap (lines 98 and 101)
WrapCall(num, min, max) ==
    IF num < min THEN F32(max - F32(min - num)) ELSE F32(min - F32(max - num))

RECURSIVE wrap(_, _, _)
wrap(num, min, max) ==
    IF num < min \/ num > max THEN wrap(WrapCall(num, min, max), min, max) ELSE num

set_yaw(oc, yaw) == [oc EXCEPT !.yaw = wrap(yaw, MIN_YAW, MAX_YAW)]

add_yaw(oc, yaw) == set_yaw(oc, F32(oc.yaw + yaw))

\* the vector with cos(pitch) for its y component
PointSwapped(pitch, yaw) ==
    <<RoundDiv(SinYaw(yaw) * CosPitch(pitch), TrigScale),
      CosPitch(pitch),
      RoundDiv(CosYaw(yaw) * CosPitch(pitch), TrigScale)>>
\* the unit vector of lines 109-113
Point(pitch, yaw) ==
    <<RoundDiv(SinYaw(yaw) * CosPitch(pitch), TrigScale),
      SinPitch(pitch),
      RoundDiv(CosYaw(yaw) * CosPitch(pitch), TrigScale)>>

\* a component of a unit vector times a distance, as a position
Scaled(c, distance) == RoundDiv(c * RoundDiv(distance, 2^13), 2^10)

calculate_relative_position(pitch, yaw, distance) ==
    LET point == Point(pitch, yaw)
    IN  <<Scaled(point[1], distance), Scaled(point[2], distance),
          Scaled(point[3], distance)>>

\* whether the assert! of line 114 passes
AssertPasses(oc) == is_normalized(Point(oc.pitch, oc.yaw))

position(oc) ==
    VAdd(oc.focus, calculate_relative_position(oc.pitch, oc.yaw, oc.distance))

----------------------------------------------------------------------------
(* The scene of setup() *)

\* the entities setup() spawns with a Transform; only the cube is tagged
\* OrbitCameraTarget
Ents == {"cube", "plane", "light"}

OrbitCameraTarget(e) == e = "cube"

\* the Option<Entity> values a camera is constructed with
Targets == {None, "cube", "light"}

SetupTranslation ==
    [e \in Ents |-> CASE e = "cube"  -> <<0, TrigScale, 0>>
                      [] e = "plane" -> Origin
                      [] e = "light" -> <<4 * TrigScale, 8 * TrigScale, 4 * TrigScale>>]

SetupCameraTransform ==
    [translation |-> <<-3 * TrigScale, 5 * TrigScale, 8 * TrigScale>>, facing |-> Origin]

FRAC_PI_4_Pitch == PiPitch \div 4

FRAC_PI_4_Yaw == PiYaw \div 4

----------------------------------------------------------------------------
(* Arguments the public methods are called with (all of them f32 values) *)

DistanceArgs ==
    {F32(x) : x \in {-150 * DistOne, EPSILON, 3 * DistOne, 10 * DistOne, 50 * DistOne,
                     150 * DistOne}}

DistanceDeltas ==
    {F32(x) : x \in {-150 * DistOne, EPSILON, 45 * DistOne}}

PitchArgs == {-2700, -900, -899, 0, 450, 899, 900, 2700}

PitchDeltas == {-450, 450, 2700}

\* 2^28 quarter-turns is an f32 whose neighbours are 32 apart
YawArgs == {-(2^28), -12, -5, -4, 0, 3, 4, 5, 20, 2^28}

YawDeltas == {-3, 5, 2^28}

FocusArgs == {Origin, <<TrigScale, 2 * TrigScale, 3 * TrigScale>>}

NewDistances == {F32(x) : x \in {0, 50 * DistOne, 150 * DistOne}}

NewPitches == {0, FRAC_PI_4_Pitch, 2700, -900}

NewYaws == {0, FRAC_PI_4_Yaw, 12, -5}

----------------------------------------------------------------------------
(* One OrbitCamera driven through its public methods *)

ApiCams == {"camera"}

Called(op, req) == [op |-> op, req |-> req]

FrameVarsUnchanged == UNCHANGED <<translation, camT, pc, cubeSteps>>

Idle == call = NoCall /\ ~panicked

Init ==
    /\ cams \in [ApiCams -> {new("cube", d, p, y) : d \in NewDistances, p \in NewPitches,
                                                    y \in NewYaws}]
    /\ call = NoCall
    /\ last = Called("new", 0)
    /\ panicked = FALSE
    /\ translation = SetupTranslation
    /\ camT = [c \in ApiCams |-> SetupCameraTransform]
    /\ pc = 0
    /\ cubeSteps = 0

SetFocus(c, focus) ==
    /\ Idle
    /\ cams' = [cams EXCEPT ![c] = set_focus(@, focus)]
    /\ last' = Called("set_focus", 0)
    /\ UNCHANGED <<call, panicked>>
    /\ FrameVarsUnchanged

SetDistance(c, distance) ==
    /\ Idle
    /\ cams' = [cams EXCEPT ![c] = set_distance(@, distance)]
    /\ last' = Called("set_distance", distance)
    /\ UNCHANGED <<call, panicked>>
    /\ FrameVarsUnchanged

AddDistance(c, distance) ==
    /\ Idle
    /\ cams' = [cams EXCEPT ![c] = add_distance(@, distance)]
    /\ last' = Called("add_distance", F32(cams[c].distance + distance))
    /\ UNCHANGED <<call, panicked>>
    /\ FrameVarsUnchanged

SetPitch(c, pitch) ==
    /\ Idle
    /\ cams' = [cams EXCEPT ![c] = set_pitch(@, pitch)]
    /\ last' = Called("set_pitch", pitch)
    /\ UNCHANGED <<call, panicked>>
    /\ FrameVarsUnchanged

AddPitch(c, pitch) ==
    /\ Idle
    /\ cams' = [cams EXCEPT ![c] = add_pitch(@, pitch)]
    /\ last' = Called("add_pitch", F32(cams[c].pitch + pitch))
    /\ UNCHANGED <<call, panicked>>
    /\ FrameVarsUnchanged

\* set_yaw enters wrap (line 85); self.yaw is assigned when wrap returns
SetYaw(c, yaw) ==
    /\ Idle
    /\ call' = [cam |-> c, num |-> yaw, depth |-> 1]
    /\ last' = Called("set_yaw", yaw)
    /\ UNCHANGED <<cams, panicked>>
    /\ FrameVarsUnchanged

AddYaw(c, yaw) ==
    /\ Idle
    /\ call' = [cam |-> c, num |-> F32(cams[c].yaw + yaw), depth |-> 1]
    /\ last' = Called("add_yaw", F32(cams[c].yaw + yaw))
    /\ UNCHANGED <<cams, panicked>>
    /\ FrameVarsUnchanged

\* one more frame of wrap (lines 96-101)
WrapRecurse ==
    /\ call.cam # None
    /\ call.num < MIN_YAW \/ call.num > MAX_YAW
    /\ call.depth < MaxDepth
    /\ call' = [call EXCEPT !.num = WrapCall(call.num, MIN_YAW, MAX_YAW),
                            !.depth = @ + 1]
    /\ UNCHANGED <<cams, last, panicked>>
    /\ FrameVarsUnchanged

\* wrap returns num (line 103) through every frame, and set_yaw stores it
WrapReturn ==
    /\ call.cam # None
    /\ ~(call.num < MIN_YAW \/ call.num > MAX_YAW)
    /\ cams' = [cams EXCEPT ![call.cam].yaw = call.num]
    /\ call' = NoCall
    /\ UNCHANGED <<last, panicked>>
    /\ FrameVarsUnchanged

\* position(): the assert of calculate_relative_position, then the sum
Position(c) ==
    /\ Idle
    /\ panicked' = ~AssertPasses(cams[c])
    /\ last' = Called("position", 0)
    /\ UNCHANGED <<cams, call>>
    /\ FrameVarsUnchanged

Next ==
    \/ \E c \in DOMAIN cams, f \in FocusArgs : SetFocus(c, f)
    \/ \E c \in DOMAIN cams : \E d \in DistanceArgs \cup {cams[c].distance} : SetDistance(c, d)
    \/ \E c \in DOMAIN cams, d \in DistanceDeltas : AddDistance(c, d)
    \/ \E c \in DOMAIN cams, p \in PitchArgs : SetPitch(c, p)
    \/ \E c \in DOMAIN cams, p \in PitchDeltas : AddPitch(c, p)
    \/ \E c \in DOMAIN cams, y \in YawArgs : SetYaw(c, y)
    \/ \E c \in DOMAIN cams, y \in YawDeltas : AddYaw(c, y)
    \/ WrapRecurse
    \/ WrapReturn
    \/ \E c \in DOMAIN cams : Position(c)

Spec == Init /\ [][Next]_vars

----------------------------------------------------------------------------
(* The frame loop of main(): the systems of the update stage *)

FrameCams == {"camera", "camera2"}

\* an order in which move_camera runs before update_camera
ScheduleMoveFirst ==
    <<"move_cube", "zoom_camera", "rotate_camera", "move_camera", "update_camera">>
\* the order in which main() registers the systems (lines 126-130); systems
\* that touch the same components run in this order
Schedule ==
    <<"move_cube", "zoom_camera", "rotate_camera", "update_camera", "move_camera">>

NextSystem == Schedule[(pc % Len(Schedule)) + 1]

Ran == pc' = (pc % Len(Schedule)) + 1

\* whether target_query.get::<Transform>(entity) is Ok
Resolves(target) == target \in Ents /\ OrbitCameraTarget(target)

\* time.delta_seconds
TimeSteps == {0, 1}

\* the sum of the frame's MouseWheel events
ZoomInputs == {F32(x) : x \in {0, 150 * DistOne, -150 * DistOne}}

\* the sum of the frame's MouseMotion events, in pixels
MouseDeltas == {<<-320, 360>>, <<0, -360>>}

CubeOrigin == <<0, 11 * TrigScale, -10 * TrigScale>>

FrameInit ==
    /\ cams \in [FrameCams -> {new(t, 50 * DistOne, p, FRAC_PI_4_Yaw) :
                                 t \in Targets, p \in {FRAC_PI_4_Pitch, 2700}}]
    /\ call = NoCall
    /\ last = Called("new", 0)
    /\ panicked = FALSE
    /\ translation = SetupTranslation
    /\ camT = [c \in FrameCams |-> SetupCameraTransform]
    /\ pc = 0
    /\ cubeSteps = 0

move_cube(dt) ==
    /\ ~panicked
    /\ NextSystem = "move_cube"
    /\ dt # 0 => cubeSteps < MaxCubeSteps
    /\ LET velocity == Cross(VSub(translation["cube"], CubeOrigin), Y_AXIS)
       IN  translation' =
               [translation EXCEPT !["cube"] = VAdd(@, VScale(velocity, dt))]
    /\ cubeSteps' = IF dt # 0 THEN cubeSteps + 1 ELSE cubeSteps
    /\ Ran
    /\ UNCHANGED <<cams, call, last, panicked, camT>>

zoom_camera(zoom) ==
    /\ ~panicked
    /\ NextSystem = "zoom_camera"
    /\ cams' = [c \in DOMAIN cams |-> add_distance(cams[c], -zoom)]
    /\ Ran
    /\ UNCHANGED <<call, last, panicked, translation, camT, cubeSteps>>

rotate_camera(pressed, delta) ==
    /\ ~panicked
    /\ NextSystem = "rotate_camera"
    /\ IF pressed
       THEN LET yaw == RoundDiv(-delta[1] * 2 * PiYaw, 1280)
                pitch == RoundDiv(delta[2] * PiPitch, 720)
            IN  cams' = [c \in DOMAIN cams |-> add_pitch(add_yaw(cams[c], yaw), pitch)]
       ELSE UNCHANGED cams
    /\ Ran
    /\ UNCHANGED <<call, last, panicked, translation, camT, cubeSteps>>

\* an update_camera whose query does not require OrbitCameraTarget
update_camera_unfiltered ==
    /\ ~panicked
    /\ NextSystem = "update_camera"
    /\ cams' = [c \in DOMAIN cams |->
                   IF cams[c].target \in Ents
                   THEN [cams[c] EXCEPT !.focus = translation[cams[c].target]]
                   ELSE cams[c]]
    /\ Ran
    /\ UNCHANGED <<call, last, panicked, translation, camT, cubeSteps>>
update_camera ==
    /\ ~panicked
    /\ NextSystem = "update_camera"
    /\ cams' = [c \in DOMAIN cams |->
                   IF cams[c].target # None /\ Resolves(cams[c].target)
                   THEN [cams[c] EXCEPT !.focus = translation[cams[c].target]]
                   ELSE cams[c]]
    /\ Ran
    /\ UNCHANGED <<call, last, panicked, translation, camT, cubeSteps>>

\* a move_camera that also writes the focus
move_camera_refocus ==
    /\ ~panicked
    /\ NextSystem = "move_camera"
    /\ camT' = [c \in DOMAIN cams |->
                   [translation |-> position(cams[c]), facing |-> cams[c].focus]]
    /\ cams' = [c \in DOMAIN cams |-> set_focus(cams[c], position(cams[c]))]
    /\ Ran
    /\ UNCHANGED <<call, last, panicked, translation, cubeSteps>>
move_camera ==
    /\ ~panicked
    /\ NextSystem = "move_camera"
    /\ IF \A c \in DOMAIN cams : AssertPasses(cams[c])
       THEN /\ camT' = [c \in DOMAIN cams |->
                           [translation |-> position(cams[c]), facing |-> cams[c].focus]]
            /\ UNCHANGED panicked
       ELSE panicked' = TRUE /\ UNCHANGED camT
    /\ Ran
    /\ UNCHANGED <<cams, call, last, translation, cubeSteps>>

\* between two frames the application writes the public focus of a camera
BetweenFrames == pc % Len(Schedule) = 0

ApplicationSetsFocus(c, focus) ==
    /\ ~panicked
    /\ BetweenFrames
    /\ cams' = [cams EXCEPT ![c] = set_focus(@, focus)]
    /\ UNCHANGED <<call, last, panicked, translation, camT, pc, cubeSteps>>

FrameNext ==
    \/ \E dt \in TimeSteps : move_cube(dt)
    \/ \E zoom \in ZoomInputs : zoom_camera(zoom)
    \/ \E pressed \in BOOLEAN, delta \in MouseDeltas : rotate_camera(pressed, delta)
    \/ update_camera
    \/ move_camera
    \/ \E c \in DOMAIN cams, f \in FocusArgs : ApplicationSetsFocus(c, f)

FrameSpec == FrameInit /\ [][FrameNext]_vars

----------------------------------------------------------------------------
(* Properties *)

InRange(x, min, max) == min <= x /\ x <= max

\* how far num lies outside [min, max]
DistanceToRange(num, min, max) ==
    IF num < min THEN min - num ELSE IF num > max THEN num - max ELSE 0

\* C1: after new and after every set_distance / add_distance, the stored
\* distance lies in [MIN_DISTANCE, MAX_DISTANCE].
C1_DistanceInRange ==
    \A c \in DOMAIN cams : InRange(cams[c].distance, MIN_DISTANCE, MAX_DISTANCE)

\* add_distance asked for more than MAX_DISTANCE and MAX_DISTANCE was stored
C1_Witness ==
    \E c \in DOMAIN cams :
        /\ last.op = "add_distance"
        /\ last.req > MAX_DISTANCE
        /\ cams[c].distance = MAX_DISTANCE

\* C2: in every state reachable from new(..) and the public mutators, the
\* pitch lies in [MIN_PITCH, MAX_PITCH] and the yaw in [MIN_YAW, MAX_YAW],
\* the state right after new included.
C2_PitchYawInRange ==
    \A c \in DOMAIN cams :
        /\ InRange(cams[c].pitch, MIN_PITCH, MAX_PITCH)
        /\ InRange(cams[c].yaw, MIN_YAW, MAX_YAW)

\* C3: after set_pitch(p) or add_pitch(p), from any prior state, the pitch
\* is the requested value clamped to the nearest of MIN_PITCH and MAX_PITCH
\* (an in-range request is stored unchanged), never wrapped.
C3_PitchClamped ==
    last.op \in {"set_pitch", "add_pitch"} =>
        \A c \in DOMAIN cams :
            /\ InRange(cams[c].pitch, MIN_PITCH, MAX_PITCH)
            /\ last.req > MAX_PITCH => cams[c].pitch = MAX_PITCH
            /\ last.req < MIN_PITCH => cams[c].pitch = MIN_PITCH
            /\ InRange(last.req, MIN_PITCH, MAX_PITCH) => cams[c].pitch = last.req

\* add_pitch on a camera constructed with a pitch of 270 degrees
C3_Witness ==
    \E c \in DOMAIN cams :
        /\ last.op = "add_pitch"
        /\ last.req = 2700 + 450
        /\ cams[c].pitch = MAX_PITCH

C5_FocusTracking ==
    [][(NextSystem = "update_camera" /\ pc' # pc) =>
          /\ \A c \in DOMAIN cams :
                cams'[c].focus =
                    IF Resolves(cams[c].target) THEN translation[cams[c].target]
                    ELSE cams[c].focus
          /\ panicked' = panicked]_vars

\* update_camera has just run: one camera's target did not resolve and its
\* focus stayed where the application put it, another one follows the moved cube
C5_Witness ==
    /\ pc = 4
    /\ Schedule[pc] = "update_camera"
    /\ cubeSteps >= 1
    /\ \E c1, c2 \in DOMAIN cams :
          /\ cams[c1].target = "light"
          /\ cams[c1].focus = <<TrigScale, 2 * TrigScale, 3 * TrigScale>>
          /\ cams[c2].target = "cube"
          /\ cams[c2].focus = translation["cube"]
          /\ cams[c2].focus # SetupTranslation["cube"]

\* C6: at the end of every frame the translation of a tracking camera is the
\* target's translation of that frame plus the offset of its distance, pitch
\* and yaw.
C6_NoStaleFocus ==
    pc = Len(Schedule) =>
        \A c \in DOMAIN cams :
            Resolves(cams[c].target) =>
                camT[c].translation =
                    VAdd(translation[cams[c].target],
                         calculate_relative_position(cams[c].pitch, cams[c].yaw,
                                                     cams[c].distance))

\* a frame has ended in which the cube had moved twice and the camera had orbited
C6_Witness ==
    /\ pc = Len(Schedule)
    /\ cubeSteps >= 2
    /\ \E c \in DOMAIN cams :
          /\ Resolves(cams[c].target)
          /\ cams[c].yaw # FRAC_PI_4_Yaw
          /\ camT[c].facing = translation["cube"]
          /\ camT[c].translation # SetupCameraTransform.translation

\* C7: set_distance(distance()) leaves the distance unchanged.
C7_ClampIdempotent ==
    [][\A c \in DOMAIN cams :
          SetDistance(c, cams[c].distance) => cams'[c].distance = cams[c].distance]_vars

\* set_distance(150) stored MAX_DISTANCE, and set_distance(distance()) followed
C7_Witness ==
    \E c \in DOMAIN cams :
        /\ last.op = "set_distance"
        /\ last.req = MAX_DISTANCE
        /\ cams[c].distance = MAX_DISTANCE

\* C8: every recursive call of wrap is given a value strictly nearer to
\* [MIN_YAW, MAX_YAW] than the value it was called with, so that the
\* recursion ends.
C8_ReflectionReduces ==
    [][(call.cam # None /\ call'.cam # None /\ call'.depth = call.depth + 1) =>
          DistanceToRange(call'.num, MIN_YAW, MAX_YAW)
              < DistanceToRange(call.num, MIN_YAW, MAX_YAW)]_vars

\* C9: update_camera changes nothing but the focus of the cameras, and
\* move_camera nothing but the transforms of the cameras.
C9_FrameEffects ==
    [][/\ (NextSystem = "update_camera" /\ pc' # pc) =>
             /\ \A c \in DOMAIN cams :
                   /\ cams'[c].target = cams[c].target
                   /\ cams'[c].distance = cams[c].distance
                   /\ cams'[c].pitch = cams[c].pitch
                   /\ cams'[c].yaw = cams[c].yaw
             /\ camT' = camT
             /\ translation' = translation
       /\ (NextSystem = "move_camera" /\ pc' # pc) =>
             /\ cams' = cams
             /\ translation' = translation]_vars

\* move_camera has just placed a camera that follows the moved cube
C9_Witness ==
    /\ pc = Len(Schedule)
    /\ Schedule[pc] = "move_camera"
    /\ cubeSteps >= 1
    /\ \E c \in DOMAIN cams :
          /\ cams[c].focus = translation["cube"]
          /\ camT[c].translation = position(cams[c])
          /\ camT[c].translation # SetupCameraTransform.translation

====
